---- MODULE Spec2Model ----
(***************************************************************************)
(* Model of add_and_update_note_files_to_anki.py: the parsing of a note    *)
(* file, the rewrite of its note_id line, the upsert of one file through   *)
(* AnkiConnect and the batch loop of main().                               *)
(*                                                                         *)
(* A Python str is a sequence of one-character strings, so that split,     *)
(* strip, splitlines, join, startswith, int() and the formatting of an     *)
(* int are computed character by character, as Python computes them.       *)
(***************************************************************************)
EXTENDS Integers, Sequences, FiniteSets, TLC

(***************************************************************************)
(* Python str primitives                                                   *)
(***************************************************************************)

\* str.strip() with no argument strips these (of the modelled alphabet)
Whitespace == {" ", "\n", "\t", "\r"}

\* the line boundary of str.splitlines(); Path.read_text() has already turned
\* "\r\n" and "\r" into "\n" (universal newlines)
LineBreak == <<"\n">>

Digits == <<"0", "1", "2", "3", "4", "5", "6", "7", "8", "9">>

\* s.startswith(p)
StartsWith(s, p) ==
    /\ Len(s) >= Len(p)
    /\ SubSeq(s, 1, Len(p)) = p

\* s.find(sep) + 1: the first position where sep occurs in s, 0 when none
Find(s, sep) ==
    LET hits == {i \in 1..(Len(s) - Len(sep) + 1) : SubSeq(s, i, i + Len(sep) - 1) = sep}
    IN  IF hits = {} THEN 0 ELSE CHOOSE i \in hits : \A j \in hits : i <= j

\* s.split(sep, maxsplit): maxsplit < 0 is "no limit"
RECURSIVE Split(_, _, _)
Split(s, sep, maxsplit) ==
    LET i == Find(s, sep)
    IN  IF maxsplit = 0 \/ i = 0
        THEN <<s>>
        ELSE <<SubSeq(s, 1, i - 1)>>
             \o Split(SubSeq(s, i + Len(sep), Len(s)), sep, maxsplit - 1)

\* s.replace(old, "")
RECURSIVE Remove(_, _)
Remove(s, old) ==
    LET i == Find(s, old)
    IN  IF i = 0
        THEN s
        ELSE SubSeq(s, 1, i - 1) \o Remove(SubSeq(s, i + Len(old), Len(s)), old)

\* s.lstrip()
RECURSIVE LStrip(_)
LStrip(s) ==
    IF s # <<>> /\ Head(s) \in Whitespace THEN LStrip(Tail(s)) ELSE s

\* s.rstrip()
RECURSIVE RStrip(_)
RStrip(s) ==
    IF s # <<>> /\ s[Len(s)] \in Whitespace THEN RStrip(SubSeq(s, 1, Len(s) - 1)) ELSE s

\* s.strip()
Strip(s) == RStrip(LStrip(s))

\* s.splitlines(): the pieces between line breaks, without a last empty piece
SplitLines(s) ==
    LET parts == Split(s, LineBreak, -1)
    IN  IF parts[Len(parts)] = <<>> THEN SubSeq(parts, 1, Len(parts) - 1) ELSE parts

\* sep.join(parts)
RECURSIVE Join(_, _)
Join(parts, sep) ==
    IF parts = <<>> THEN <<>>
    ELSE IF Len(parts) = 1 THEN parts[1]
    ELSE parts[1] \o sep \o Join(Tail(parts), sep)

\* list.insert(index, x) for an index >= 0: past the end it appends
ListInsert(list, index, x) ==
    IF index >= Len(list)
    THEN Append(list, x)
    ELSE SubSeq(list, 1, index) \o <<x>> \o SubSeq(list, index + 1, Len(list))

\* str(n) of an int, as an f-string formats it
RECURSIVE NatToStr(_)
NatToStr(n) ==
    IF n < 10 THEN <<Digits[n + 1]>> ELSE NatToStr(n \div 10) \o <<Digits[(n % 10) + 1]>>

IntToStr(n) == IF n < 0 THEN <<"-">> \o NatToStr(-n) ELSE NatToStr(n)

DigitValue(c) == (CHOOSE i \in 1..10 : Digits[i] = c) - 1

IsDigits(s) == s # <<>> /\ \A i \in 1..Len(s) : \E d \in 1..10 : Digits[d] = s[i]

RECURSIVE DigitsToNat(_)
DigitsToNat(s) ==
    IF s = <<>> THEN 0 ELSE 10 * DigitsToNat(SubSeq(s, 1, Len(s) - 1)) + DigitValue(s[Len(s)])

\* int(s): an optional sign and decimal digits, surrounding whitespace ignored;
\* anything else raises ValueError
IntOk(s) ==
    LET t == Strip(s)
    IN  \/ IsDigits(t)
        \/ t # <<>> /\ Head(t) \in {"-", "+"} /\ IsDigits(Tail(t))

Int_(s) ==
    LET t == Strip(s)
    IN  IF IsDigits(t) THEN DigitsToNat(t)
        ELSE IF Head(t) = "-" THEN -DigitsToNat(Tail(t))
        ELSE DigitsToNat(Tail(t))

\* repr(s) of a str: quoted, with the backslash, the tab and the chosen quote escaped
ReprChar(c, quote) ==
    IF c = "\\" THEN <<"\\", "\\">>
    ELSE IF c = "\t" THEN <<"\\", "t">>
    ELSE IF c = quote THEN <<"\\", c>>
    ELSE <<c>>

RECURSIVE ReprBody(_, _)
ReprBody(s, quote) ==
    IF s = <<>> THEN <<>> ELSE ReprChar(Head(s), quote) \o ReprBody(Tail(s), quote)

Repr(s) ==
    LET has(c) == \E i \in 1..Len(s) : s[i] = c
        quote  == IF has("'") /\ ~has("\"") THEN "\"" ELSE "'"
    IN  <<quote>> \o ReprBody(s, quote) \o <<quote>>

(***************************************************************************)
(* The literals of the program                                             *)
(***************************************************************************)

DELIMITER      == <<"-", "-", "-">>
NOTE_ID_KEY    == <<"n", "o", "t", "e", "_", "i", "d">>
TAGS_KEY       == <<"t", "a", "g", "s">>
DECK_NAME_KEY  == <<"d", "e", "c", "k", "_", "n", "a", "m", "e">>
MODEL_NAME_KEY == <<"m", "o", "d", "e", "l", "_", "n", "a", "m", "e">>
SOURCE_FIELD   == <<"S", "o", "u", "r", "c", "e">>
H2_OPEN        == <<"<", "h", "2", ">">>
H2_CLOSE_NL    == <<"<", "/", "h", "2", ">", "\n">>
P_OPEN         == <<"<", "p", ">">>
P_CLOSE        == <<"<", "/", "p", ">">>
MSG_LINE       == <<"M", "e", "t", "a", "d", "a", "t", "a", " ", "l", "i", "n", "e", " ">>
MSG_NOT_UNDERSTOOD == <<" ", "n", "o", "t", " ", "u", "n", "d", "e", "r", "s", "t", "o", "o", "d">>

(***************************************************************************)
(* Results of a call: a returned value or a raised exception               *)
(***************************************************************************)

Ok(v) == [ok |-> TRUE, value |-> v]

Raise(type, message) == [ok |-> FALSE, error |-> [type |-> type, message |-> message]]

\* None, and an Optional value that is present
None == {}

Some(v) == {v}

TheValue(opt) == CHOOSE v \in opt : TRUE

\* d[key] = value on a dict (a function from keys to values)
DictPut(d, key, value) ==
    [k \in (DOMAIN d) \cup {key} |-> IF k = key THEN value ELSE d[k]]

EmptyDict == [k \in {} |-> <<>>]

(***************************************************************************)
(* Parsing                                                                 *)
(***************************************************************************)

\* _split_metadata_and_content as it would be with file_content.split("---"): any
\* number of delimiters but two raises
SplitMetadataAndContent_NoMaxsplit(file_content) ==
    LET parts == Split(file_content, DELIMITER, -1)
    IN  IF Len(parts) # 3
        THEN Raise("ValueError", <<>>)
        ELSE Ok([metadata |-> Strip(parts[2]), content |-> Strip(parts[3])])

\* _split_metadata_and_content: the unpacking of anything but three parts
\* raises ValueError
_split_metadata_and_content(file_content) ==
    LET parts == Split(file_content, DELIMITER, 2)
    IN  IF Len(parts) # 3
        THEN Raise("ValueError", <<>>)
        ELSE Ok([metadata |-> Strip(parts[2]), content |-> Strip(parts[3])])

\* the value of the tags key: [s.strip() for s in value.split(",")]
ParseTags(value) ==
    LET entries == Split(value, <<",">>, -1)
    IN  [i \in 1..Len(entries) |-> Strip(entries[i])]

\* the loop of _parse_metadata over the lines left, metadata being the dict so far
RECURSIVE ParseMetadataLines(_, _)
ParseMetadataLines(lines, metadata) ==
    IF lines = <<>> THEN Ok(metadata)
    ELSE
      LET line == Head(lines)
          kv   == Split(line, <<":">>, 1)
      IN  IF Len(kv) # 2
          THEN Raise("NotImplementedError", MSG_LINE \o Repr(line) \o MSG_NOT_UNDERSTOOD)
          ELSE
            LET key   == Strip(kv[1])
                value == Strip(kv[2])
            IN  IF key = NOTE_ID_KEY
                THEN IF IntOk(value)
                     THEN ParseMetadataLines(Tail(lines), DictPut(metadata, key, Int_(value)))
                     ELSE Raise("ValueError", value)
                ELSE IF key = TAGS_KEY
                THEN ParseMetadataLines(Tail(lines), DictPut(metadata, key, ParseTags(value)))
                ELSE ParseMetadataLines(Tail(lines), DictPut(metadata, key, value))

\* _parse_metadata as it would be if a line of another shape were skipped
ParseMetadata_SkipsOtherLines(raw) ==
    LET lines == Split(raw, <<"\n">>, -1)
    IN  ParseMetadataLines(SelectSeq(lines, LAMBDA l : Len(Split(l, <<":">>, 1)) = 2), EmptyDict)

_parse_metadata(raw) == ParseMetadataLines(Split(raw, <<"\n">>, -1), EmptyDict)

\* markdown.markdown, for the documents of the model, whose blocks are single
\* lines: "## name" is a level-2 heading, "---" a horizontal rule and any other
\* line a paragraph; blank lines separate the blocks
MarkdownBlock(line) ==
    IF StartsWith(line, <<"#", "#", " ">>)
    THEN H2_OPEN \o Strip(SubSeq(line, 4, Len(line))) \o <<"<", "/", "h", "2", ">">>
    ELSE IF Strip(line) = DELIMITER
    THEN <<"<", "h", "r", " ", "/", ">">>
    ELSE P_OPEN \o Strip(line) \o P_CLOSE

Markdown(raw_content) ==
    LET lines  == Split(raw_content, <<"\n">>, -1)
        kept   == SelectSeq(lines, LAMBDA l : Strip(l) # <<>>)
    IN  Join([i \in 1..Len(kept) |-> MarkdownBlock(kept[i])], <<"\n">>)

\* the loop of _split_raw_html_in_sections over the items left; fields is the
\* dict the comprehension of parse_markdown_note has built so far
RECURSIVE SectionsOf(_, _)
SectionsOf(items, fields) ==
    IF items = <<>> THEN Ok(fields)
    ELSE IF Head(items) = <<>> THEN SectionsOf(Tail(items), fields)
    ELSE
      LET parts == Split(Head(items), H2_CLOSE_NL, -1)
      IN  IF Len(parts) # 2
          THEN Raise("ValueError", <<>>)
          ELSE
            LET field_name  == parts[1]
                field_value == IF field_name = SOURCE_FIELD
                               THEN Remove(Remove(parts[2], P_OPEN), P_CLOSE)
                               ELSE parts[2]
            IN  SectionsOf(Tail(items), DictPut(fields, Strip(field_name), Strip(field_value)))

_split_raw_html_in_sections(raw_html) == SectionsOf(Split(raw_html, H2_OPEN, -1), EmptyDict)

\* Note(...) of parse_markdown_note: metadata[key] raises KeyError
MakeNote(metadata, fields) ==
    IF DECK_NAME_KEY \notin DOMAIN metadata THEN Raise("KeyError", Repr(DECK_NAME_KEY))
    ELSE IF MODEL_NAME_KEY \notin DOMAIN metadata THEN Raise("KeyError", Repr(MODEL_NAME_KEY))
    ELSE IF TAGS_KEY \notin DOMAIN metadata THEN Raise("KeyError", Repr(TAGS_KEY))
    ELSE Ok([id     |-> IF NOTE_ID_KEY \in DOMAIN metadata
                        THEN Some(metadata[NOTE_ID_KEY]) ELSE None,
             deck   |-> metadata[DECK_NAME_KEY],
             model  |-> metadata[MODEL_NAME_KEY],
             fields |-> fields,
             tags   |-> metadata[TAGS_KEY]])

\* parse_markdown_note once the text is split: the metadata, the fields, the Note
AssembleNoteOf(parts) ==
    LET metadata == _parse_metadata(parts.metadata)
    IN  IF ~metadata.ok THEN metadata
        ELSE
          LET fields == _split_raw_html_in_sections(Markdown(parts.content))
          IN  IF ~fields.ok THEN fields
              ELSE MakeNote(metadata.value, fields.value)

\* parse_markdown_note, of the text path.read_text() returns
parse_markdown_note(file_content) ==
    LET split == _split_metadata_and_content(file_content)
    IN  IF ~split.ok THEN split ELSE AssembleNoteOf(split.value)

(***************************************************************************)
(* The rewrite of the note_id line                                         *)
(***************************************************************************)

NoteIdLine(note_id) == NOTE_ID_KEY \o <<":", " ">> \o IntToStr(note_id)

\* the lines the loop of update_note_file_id collects
ReplacedLines(lines, note_id) ==
    [i \in 1..Len(lines) |->
        IF StartsWith(lines[i], NOTE_ID_KEY) THEN NoteIdLine(note_id) ELSE lines[i]]

\* update_note_file_id: the text written to the file, from the text read
update_note_file_id(file_content, note_id) ==
    LET lines      == SplitLines(file_content)
        id_updated == \E i \in 1..Len(lines) : StartsWith(lines[i], NOTE_ID_KEY)
        replaced   == ReplacedLines(lines, note_id)
        updated_lines == IF id_updated
                         THEN replaced
                         ELSE ListInsert(replaced, 1, NoteIdLine(note_id))
    IN  Join(updated_lines, <<"\n">>)

(***************************************************************************)
(* Bounds, and the inputs of the model                                     *)
(***************************************************************************)

\* the files find_note_files discovers: at most this many
NumFiles == 3

\* the runs of the program, one after the other on the same files: at most this many
MaxRuns == 2

\* the text of a file whose lines are these, each ended by a newline
FileOf(lines) == Join(lines, <<"\n">>) \o <<"\n">>

L_DELIM   == DELIMITER
L_TITLE   == <<"#", " ", "t">>
L_DECK    == DECK_NAME_KEY \o <<":", " ", "d">>
L_MODEL   == MODEL_NAME_KEY \o <<":", " ", "m">>
L_TAGS_AB == TAGS_KEY \o <<":", " ", "a", ",", " ", "b">>
L_TAGS_AA == TAGS_KEY \o <<":", " ", "a", ",", "a">>
L_TAGS_NO == TAGS_KEY \o <<":">>
L_FRONT   == <<"#", "#", " ", "F", "r", "o", "n", "t">>
L_BACK    == <<"#", "#", " ", "B", "a", "c", "k">>
L_Q       == <<"q">>
L_R       == <<"r">>
L_OOPS    == <<" ", "o", "o", "p", "s">>
L_PROSE   == NOTE_ID_KEY \o <<" ", "i", "s", " ", "a", " ", "k", "e", "y">>

\* a note not yet created, the metadata block opening the file
F_NEW == FileOf(<<L_DELIM, L_DECK, L_MODEL, L_TAGS_AB, L_DELIM, L_FRONT, L_Q, L_BACK, L_R>>)

\* a note not yet created, a title line before the metadata block
F_PREAMBLE == FileOf(<<L_TITLE, L_DELIM, L_DECK, L_MODEL, L_TAGS_AA, L_DELIM, L_FRONT, L_Q>>)

\* a note the remote store knows, a horizontal rule in its content
F_ID5 == FileOf(<<L_DELIM, NoteIdLine(5), L_DECK, L_MODEL, L_TAGS_NO, L_DELIM,
                  L_FRONT, L_Q, <<>>, L_DELIM, <<>>, L_R>>)

\* a note with an identity the remote store does not know
F_ID3 == FileOf(<<L_DELIM, NoteIdLine(3), L_DECK, L_MODEL, L_TAGS_AB, L_DELIM, L_FRONT, L_Q>>)

\* a metadata line with no colon, after a good one
F_BAD == FileOf(<<L_DELIM, L_DECK, L_OOPS, L_MODEL, L_TAGS_AB, L_DELIM, L_FRONT, L_Q>>)

Catalogue == {F_NEW, F_PREAMBLE, F_ID5, F_ID3, F_BAD}

\* the notes of the remote store before the first run
InitialAnkiNotes == {5}

\* the identities the remote store gives to the notes it creates, in this order:
\* enough of them for every file of every run
NewIds == 8..(7 + NumFiles * MaxRuns)

\* the identity add_note returns: the first one the store has not given yet
NextNewId(notes) ==
    CHOOSE id \in NewIds \ notes : \A other \in NewIds \ notes : id <= other

(***************************************************************************)
(* State                                                                   *)
(***************************************************************************)

VARIABLES
    files,            \* the note files under the root, in the order of discovery: their texts
    files0,           \* the texts of the files when the run started
    root_exists,      \* whether the root directory exists
    anki_notes,       \* the identities of the notes of the remote store
    run,              \* the number of the run
    pc,               \* where the run is
    idx,              \* how many paths the loop of main has taken from find_note_files
    raw,              \* parse_markdown_note: raw_metadata and raw_content, once split
    note,             \* upsert_note_file_in_anki_via_ankiconnect: note
    note_id,          \* upsert_note_file_in_anki_via_ankiconnect: note_id, of add_note
    outcome,          \* main: outcome
    inserted_amount,
    updated_amount,
    errored_amount,
    error,            \* the exception that ended the run
    stdout,           \* what the run has printed
    requests,         \* the requests the run has sent to AnkiConnect
    writes,           \* the files the run has written
    outcomes,         \* the outcomes the upserts of the run have returned
    created           \* the identities add_note gave in earlier runs, by file

vars == <<files, files0, root_exists, anki_notes, run, pc, idx, raw, note, note_id, outcome,
          inserted_amount, updated_amount, errored_amount, error, stdout,
          requests, writes, outcomes, created>>

locals == <<raw, note, note_id, outcome>>

counters == <<inserted_amount, updated_amount, errored_amount>>

Msg(m) == [msg |-> m]

\* the state of a run that starts
StartOfRun ==
    /\ pc = "start"
    /\ idx = 0
    /\ raw = None /\ note = None /\ note_id = None /\ outcome = None
    /\ inserted_amount = 0 /\ updated_amount = 0 /\ errored_amount = 0
    /\ error = None
    /\ stdout = <<>> /\ requests = <<>> /\ writes = <<>> /\ outcomes = <<>>

Init ==
    /\ root_exists \in BOOLEAN
    /\ files \in IF root_exists
                 THEN UNION {[1..n -> Catalogue] : n \in 0..NumFiles}
                 ELSE {<<>>}
    /\ files0 = files
    /\ anki_notes = InitialAnkiNotes
    /\ run = 1
    /\ created = <<>>
    /\ StartOfRun

(***************************************************************************)
(* main and upsert_note_file_in_anki_via_ankiconnect, step by step         *)
(***************************************************************************)

\* find_note_files, up to its first path
FindNoteFiles ==
    /\ pc = "start"
    /\ IF root_exists
       THEN /\ stdout' = Append(stdout, Msg("Finding"))
            /\ pc' = "loop"
            /\ UNCHANGED error
       ELSE /\ error' = Some([type |-> "FileNotFoundError", message |-> <<>>])
            /\ pc' = "raised"
            /\ UNCHANGED stdout
    /\ UNCHANGED <<files, files0, root_exists, anki_notes, run, idx, locals, counters,
                   requests, writes, outcomes, created>>

\* the loop takes the next path; parse_markdown_note reads the file and splits it
SplitMetadataAndContent ==
    /\ pc = "loop"
    /\ idx < Len(files)
    /\ idx' = idx + 1
    /\ LET split == _split_metadata_and_content(files[idx + 1])
       IN  IF split.ok
           THEN /\ raw' = Some(split.value)
                /\ pc' = "parse"
                /\ UNCHANGED error
           ELSE /\ error' = Some(split.error)
                /\ pc' = "raised"
                /\ UNCHANGED raw
    /\ UNCHANGED <<files, files0, root_exists, anki_notes, run, note, note_id, outcome, counters,
                   stdout, requests, writes, outcomes, created>>

\* the rest of parse_markdown_note
AssembleNote ==
    /\ pc = "parse"
    /\ LET parsed == AssembleNoteOf(TheValue(raw))
       IN  IF parsed.ok
           THEN /\ note' = Some(parsed.value)
                /\ pc' = "version"
                /\ UNCHANGED error
           ELSE /\ error' = Some(parsed.error)
                /\ pc' = "raised"
                /\ UNCHANGED note
    /\ raw' = None
    /\ UNCHANGED <<files, files0, root_exists, anki_notes, run, idx, note_id, outcome, counters,
                   stdout, requests, writes, outcomes, created>>

\* a request of the upsert of the current file, and how the remote store answered
Request(op, id, response) == [op |-> op, path |-> idx, note_id |-> id, response |-> response]

\* anki.version(): the remote store answers or the connection fails
AnkiVersion ==
    /\ pc = "version"
    /\ \E alive \in BOOLEAN :
         IF alive
         THEN /\ requests' = Append(requests, Request("version", None, "ok"))
              /\ pc' = IF TheValue(note).id = None THEN "add_note" ELSE "update_note_fields"
              /\ UNCHANGED outcome
         ELSE /\ requests' = Append(requests, Request("version", None, "ConnectionError"))
              /\ outcome' = Some("anki_gui_is_not_running")
              /\ pc' = "match"
    /\ UNCHANGED <<files, files0, root_exists, anki_notes, run, idx, raw, note, note_id, counters,
                   error, stdout, writes, outcomes, created>>

\* anki.add_note(...): the remote store creates the note and gives its identity
AddNote ==
    /\ pc = "add_note"
    /\ NewIds \ anki_notes # {}
    /\ LET id == NextNewId(anki_notes)
       IN  /\ anki_notes' = anki_notes \cup {id}
           /\ note_id' = Some(id)
           /\ requests' = Append(requests, Request("addNote", Some(id), "ok"))
    /\ stdout' = stdout \o <<Msg("Adding note to Anki... "), Msg("done")>>
    /\ pc' = "update_file"
    /\ UNCHANGED <<files, files0, root_exists, run, idx, raw, note, outcome, counters,
                   error, writes, outcomes, created>>

\* update_note_file_id(path, note_id), and the return of insert_note
UpdateNoteFileId ==
    /\ pc = "update_file"
    /\ LET updated_content == update_note_file_id(files[idx], TheValue(note_id))
       IN  /\ files' = [files EXCEPT ![idx] = updated_content]
           /\ writes' = Append(writes, [path |-> idx, note_id |-> TheValue(note_id),
                                        before |-> files[idx], after |-> updated_content])
    /\ stdout' = stdout \o <<Msg("  updating note file with ID... "), Msg("done")>>
    /\ outcome' = Some("insert_note")
    /\ pc' = "match"
    /\ UNCHANGED <<files0, root_exists, anki_notes, run, idx, raw, note, note_id, counters,
                   error, requests, outcomes, created>>

\* the outcome of an update as it would be without the except ValueError branch
UpdateOutcome_RejectionUnnoticed(known) == "update_note"

\* what the update of a note ends with: ValueError when the remote store does not
\* know the identity
UpdateOutcome(known) ==
    IF known THEN "update_note" ELSE "file_had_id_by_note_not_in_anki"

\* anki.update_note_fields(...), and the return of the outcome
UpdateNoteFields ==
    /\ pc = "update_note_fields"
    /\ LET id    == TheValue(TheValue(note).id)
           known == id \in anki_notes
       IN  /\ requests' = Append(requests, Request("updateNoteFields", Some(id),
                                                  IF known THEN "ok" ELSE "ValueError"))
           /\ outcome' = Some(UpdateOutcome(known))
           /\ IF known
              THEN \E result \in {"", "warning"} :
                     stdout' = stdout \o <<Msg("Updating note... "),
                                           IF result = "" THEN Msg("done") ELSE Msg(result)>>
              ELSE stdout' = stdout \o <<Msg("Updating note... "),
                                         Msg("  ERROR by AnkiConnect"), Msg("  path")>>
    /\ pc' = "match"
    /\ UNCHANGED <<files, files0, root_exists, anki_notes, run, idx, raw, note, note_id, counters,
                   error, writes, outcomes, created>>

\* the match of main as it would be if the loss of the remote store did not return
MatchCase_AbortGoesOn(o) ==
    IF o = "insert_note"
    THEN [pc |-> "loop", inserted |-> 1, updated |-> 0, errored |-> 0]
    ELSE IF o = "update_note"
    THEN [pc |-> "loop", inserted |-> 0, updated |-> 1, errored |-> 0]
    ELSE IF o = "file_had_id_by_note_not_in_anki"
    THEN [pc |-> "loop", inserted |-> 0, updated |-> 0, errored |-> 1]
    ELSE [pc |-> "loop", inserted |-> 0, updated |-> 0, errored |-> 0]

\* the match of main as it would be if a rejected update were not counted
MatchCase_ErrorNotCounted(o) ==
    IF o = "anki_gui_is_not_running"
    THEN [pc |-> "aborted", inserted |-> 0, updated |-> 0, errored |-> 0]
    ELSE IF o = "insert_note"
    THEN [pc |-> "loop", inserted |-> 1, updated |-> 0, errored |-> 0]
    ELSE IF o = "update_note"
    THEN [pc |-> "loop", inserted |-> 0, updated |-> 1, errored |-> 0]
    ELSE [pc |-> "loop", inserted |-> 0, updated |-> 0, errored |-> 0]

\* the match of main on an outcome: where the run goes, and what each counter gains
MatchCase(o) ==
    IF o = "anki_gui_is_not_running"
    THEN [pc |-> "aborted", inserted |-> 0, updated |-> 0, errored |-> 0]
    ELSE IF o = "insert_note"
    THEN [pc |-> "loop", inserted |-> 1, updated |-> 0, errored |-> 0]
    ELSE IF o = "update_note"
    THEN [pc |-> "loop", inserted |-> 0, updated |-> 1, errored |-> 0]
    ELSE IF o = "file_had_id_by_note_not_in_anki"
    THEN [pc |-> "loop", inserted |-> 0, updated |-> 0, errored |-> 1]
    ELSE [pc |-> "unhandled", inserted |-> 0, updated |-> 0, errored |-> 0]

\* what main prints once the loop has ended
SummaryOf(inserted, updated, errored) ==
    <<[msg |-> "Summary", added |-> inserted, updated |-> updated, errors |-> errored]>>

\* the print of the abort case as it would be if the tally followed the diagnostic
AbortOutput_WithTally(inserted, updated, errored) ==
    <<Msg("Could not connect to AnkiConnect local server")>>
    \o SummaryOf(inserted, updated, errored)

\* what main prints in the case anki_gui_is_not_running, before it returns
AbortOutput(inserted, updated, errored) ==
    <<Msg("Could not connect to AnkiConnect local server")>>

MatchOutcome ==
    /\ pc = "match"
    /\ LET o == TheValue(outcome)
           m == MatchCase(o)
       IN  /\ pc' = m.pc
           /\ inserted_amount' = inserted_amount + m.inserted
           /\ updated_amount' = updated_amount + m.updated
           /\ errored_amount' = errored_amount + m.errored
           /\ stdout' = IF o = "anki_gui_is_not_running"
                        THEN stdout \o AbortOutput(inserted_amount, updated_amount, errored_amount)
                        ELSE stdout
           /\ outcomes' = Append(outcomes, [path |-> idx, outcome |-> o])
    /\ raw' = None /\ note' = None /\ note_id' = None /\ outcome' = None
    /\ UNCHANGED <<files, files0, root_exists, anki_notes, run, idx, error, requests, writes, created>>

PrintSummary ==
    /\ pc = "loop"
    /\ idx = Len(files)
    /\ stdout' = stdout \o SummaryOf(inserted_amount, updated_amount, errored_amount)
    /\ pc' = "done"
    /\ UNCHANGED <<files, files0, root_exists, anki_notes, run, idx, locals, counters, error,
                   requests, writes, outcomes, created>>

Ended == pc \in {"done", "aborted", "unhandled", "raised"}

\* the program is run again, on the files and the remote store as the run left them
RunAgain ==
    /\ Ended
    /\ run < MaxRuns
    /\ run' = run + 1
    /\ created' = created \o [i \in 1..Len(writes) |->
                                 [path |-> writes[i].path, note_id |-> writes[i].note_id]]
    /\ pc' = "start"
    /\ idx' = 0
    /\ raw' = None /\ note' = None /\ note_id' = None /\ outcome' = None
    /\ inserted_amount' = 0 /\ updated_amount' = 0 /\ errored_amount' = 0
    /\ error' = None
    /\ stdout' = <<>> /\ requests' = <<>> /\ writes' = <<>> /\ outcomes' = <<>>
    /\ files0' = files
    /\ UNCHANGED <<files, root_exists, anki_notes>>

Next ==
    \/ FindNoteFiles
    \/ SplitMetadataAndContent
    \/ AssembleNote
    \/ AnkiVersion
    \/ AddNote
    \/ UpdateNoteFileId
    \/ UpdateNoteFields
    \/ MatchOutcome
    \/ PrintSummary
    \/ RunAgain

Spec == Init /\ [][Next]_vars

(***************************************************************************)
(* Vocabulary of the properties                                            *)
(***************************************************************************)

\* how many upserts of the run have returned this outcome
CountOutcome(o) == Cardinality({i \in 1..Len(outcomes) : outcomes[i].outcome = o})

\* the run has printed this message
Printed(m) == \E i \in 1..Len(stdout) : stdout[i].msg = m

\* the counters hold the outcomes returned so far
CountersHoldOutcomes ==
    /\ inserted_amount = CountOutcome("insert_note")
    /\ updated_amount = CountOutcome("update_note")
    /\ errored_amount = CountOutcome("file_had_id_by_note_not_in_anki")

\* the upsert of the current file is past parse_markdown_note
PastParse == pc \in {"version", "add_note", "update_file", "update_note_fields", "match"}

HasColon(line) == \E i \in 1..Len(line) : line[i] = ":"

\* the lines of the metadata block of a text with its two delimiters
MetadataLines(text) == Split(Strip(Split(text, DELIMITER, 2)[2]), <<"\n">>, -1)

\* the text has a metadata block, and a line of it has no colon
MalformedMetadataLine(text) ==
    /\ Len(Split(text, DELIMITER, 2)) = 3
    /\ \E i \in 1..Len(MetadataLines(text)) : ~HasColon(MetadataLines(text)[i])

FirstLineWithoutColon(text) ==
    LET lines == MetadataLines(text)
        i     == CHOOSE k \in 1..Len(lines) :
                    ~HasColon(lines[k]) /\ \A j \in 1..(k - 1) : HasColon(lines[j])
    IN  lines[i]

(***************************************************************************)
(* C1: once the upsert of a file has returned anki_gui_is_not_running the  *)
(* run has halted: that file is the last one taken, no request but the     *)
(* probe was sent for it and none for a later file, no file at or after it *)
(* was written, and the counters hold the outcomes of the files before it. *)
(***************************************************************************)
C1_HaltsOnLivenessLoss ==
    \A i \in 1..Len(outcomes) :
        outcomes[i].outcome = "anki_gui_is_not_running" =>
            LET p == outcomes[i].path
            IN  /\ pc = "aborted"
                /\ i = Len(outcomes)
                /\ idx = p
                /\ raw = None /\ note = None
                /\ \A k \in 1..Len(requests) :
                       /\ requests[k].path <= p
                       /\ requests[k].path = p => requests[k].op = "version"
                /\ \A k \in 1..Len(writes) : writes[k].path < p
                /\ \A q \in p..Len(files) : files[q] = files0[q]
                /\ inserted_amount + updated_amount + errored_amount = i - 1
                /\ CountersHoldOutcomes

\* the second of three files lost the remote store, after one that was counted
C1_Witness ==
    /\ pc = "aborted"
    /\ Len(files) = 3
    /\ idx = 2
    /\ inserted_amount = 1

(***************************************************************************)
(* C3: when update_note_fields is rejected for a file with a note_id the   *)
(* remote store does not know, the outcome is                              *)
(* file_had_id_by_note_not_in_anki, the file is as the run found it, the   *)
(* errored counter counts it and the other counters do not, and the run    *)
(* goes on with the files left.                                            *)
(***************************************************************************)
C3_UnknownIdentityIsCountedAndSkipped ==
    \A k \in 1..Len(requests) :
        (requests[k].op = "updateNoteFields" /\ requests[k].response = "ValueError") =>
            LET p == requests[k].path
            IN  /\ parse_markdown_note(files0[p]).value.id = requests[k].note_id
                /\ files[p] = files0[p]
                /\ IF pc = "match" /\ idx = p
                   THEN outcome = Some("file_had_id_by_note_not_in_anki")
                   ELSE /\ outcomes[p] = [path |-> p, outcome |-> "file_had_id_by_note_not_in_anki"]
                        /\ errored_amount = CountOutcome("file_had_id_by_note_not_in_anki")
                        /\ inserted_amount = CountOutcome("insert_note")
                        /\ updated_amount = CountOutcome("update_note")
                        /\ pc \in {"aborted", "raised"} => idx > p
                        /\ pc = "done" => Len(outcomes) = Len(files)
                        /\ pc # "unhandled"

\* a run that ended normally after a rejected update of its first file and the
\* upsert of two more
C3_Witness ==
    /\ pc = "done"
    /\ Len(files) = 3
    /\ outcomes[1].outcome = "file_had_id_by_note_not_in_anki"
    /\ errored_amount = 1
    /\ inserted_amount + updated_amount = 2

(***************************************************************************)
(* C4: a parse error of a file ends the run with an exception and is no    *)
(* outcome: a file with a metadata line without a colon never gets past    *)
(* parse_markdown_note, the exception names that line as repr gives it, no *)
(* request was sent for the file, no later file was taken, no file was     *)
(* written for it and the counters are those of the files before it.       *)
(***************************************************************************)
C4_ParseErrorIsFatal ==
    /\ (PastParse /\ idx >= 1) => ~MalformedMetadataLine(files0[idx])
    /\ (pc = "raised" /\ idx >= 1) =>
          /\ error # None
          /\ ~parse_markdown_note(files[idx]).ok
          /\ outcome = None /\ note = None
          /\ Len(outcomes) = idx - 1
          /\ \A k \in 1..Len(outcomes) : outcomes[k].path < idx
          /\ \A k \in 1..Len(requests) : requests[k].path < idx
          /\ \A q \in idx..Len(files) : files[q] = files0[q]
          /\ inserted_amount + updated_amount + errored_amount = idx - 1
          /\ CountersHoldOutcomes
          /\ MalformedMetadataLine(files[idx]) =>
                TheValue(error) =
                    [type    |-> "NotImplementedError",
                     message |-> MSG_LINE \o Repr(FirstLineWithoutColon(files[idx]))
                                          \o MSG_NOT_UNDERSTOOD]

\* the second of three files has a metadata line without a colon
C4_Witness ==
    /\ pc = "raised"
    /\ Len(files) = 3
    /\ idx = 2
    /\ MalformedMetadataLine(files[2])
    /\ inserted_amount + updated_amount + errored_amount = 1

(***************************************************************************)
(* C7 as claimed: the tally is printed when the run ends normally or on    *)
(* the loss of the remote store, and not when it ends on a parse error.    *)
(***************************************************************************)
C7_TallyOnNormalAndAbortedEnd ==
    /\ pc \in {"done", "aborted"} => Printed("Summary")
    /\ pc = "raised" => ~Printed("Summary")

(***************************************************************************)
(* C7, amended: the tally is printed, with the three counters, when and    *)
(* only when the run ends normally; a run that ends on the loss of the     *)
(* remote store prints the connection diagnostic and no tally, and a run   *)
(* that ends on an exception prints no tally.                              *)
(***************************************************************************)
C7_TallyOnlyOnNormalEnd ==
    /\ pc = "done" =>
          /\ stdout # <<>>
          /\ stdout[Len(stdout)].msg = "Summary"
          /\ stdout[Len(stdout)].added = inserted_amount
          /\ stdout[Len(stdout)].updated = updated_amount
          /\ stdout[Len(stdout)].errors = errored_amount
    /\ pc = "aborted" =>
          /\ ~Printed("Summary")
          /\ stdout[Len(stdout)].msg = "Could not connect to AnkiConnect local server"
    /\ pc \in {"raised", "unhandled"} => ~Printed("Summary")
    /\ Printed("Summary") => pc = "done"

\* a run that lost the remote store at its third file, two files counted
C7_Witness ==
    /\ pc = "aborted"
    /\ idx = 3
    /\ inserted_amount + updated_amount + errored_amount = 2

(***************************************************************************)
(* C10: the counters hold the outcomes returned so far, one counter one    *)
(* more for each file whose upsert returned insert_note, update_note or    *)
(* file_had_id_by_note_not_in_anki; the files are taken once each, in the  *)
(* order of discovery; and a run that ends normally has counted every      *)
(* file.                                                                   *)
(***************************************************************************)
C10_CountersTallyTheFiles ==
    /\ CountersHoldOutcomes
    /\ inserted_amount + updated_amount + errored_amount
         = Len(outcomes) - CountOutcome("anki_gui_is_not_running")
    /\ CountOutcome("anki_gui_is_not_running") <= 1
    /\ \A i \in 1..Len(outcomes) : outcomes[i].path = i
    /\ Len(outcomes) \in {idx - 1, idx}
    /\ idx <= Len(files)
    /\ pc = "done" =>
          /\ Len(outcomes) = Len(files)
          /\ inserted_amount + updated_amount + errored_amount = Len(files)

\* a run over three files that ended normally with one file on each counter
C10_Witness ==
    /\ pc = "done"
    /\ inserted_amount = 1
    /\ updated_amount = 1
    /\ errored_amount = 1

(***************************************************************************)
(* C2 as claimed: a file whose note was created with identity N is, once   *)
(* rewritten, a file whose note has id N; and in a later run no addNote is *)
(* sent for a file an earlier run created a note for, and its update is    *)
(* for that identity.                                                      *)
(***************************************************************************)
C2_RewrittenFileIsRecognized ==
    /\ \A k \in 1..Len(writes) :
          LET parsed == parse_markdown_note(writes[k].after)
          IN  /\ parsed.ok
              /\ parsed.value.id = Some(writes[k].note_id)
    /\ \A c \in 1..Len(created) : \A k \in 1..Len(requests) :
          requests[k].path = created[c].path =>
              /\ requests[k].op # "addNote"
              /\ requests[k].op = "updateNoteFields" =>
                    requests[k].note_id = Some(created[c].note_id)

(***************************************************************************)
(* C5 as claimed: for a file none of whose lines begins with note_id,      *)
(* update_note_file_id writes the lines of the file with the one line      *)
(* "note_id: <value>" put straight after the line of the opening           *)
(* delimiter, and every other line as it was and where it was.             *)
(***************************************************************************)
OpeningDelimiterLine(lines) ==
    CHOOSE d \in 1..Len(lines) :
        /\ Find(lines[d], DELIMITER) # 0
        /\ \A j \in 1..(d - 1) : Find(lines[j], DELIMITER) = 0

C5_InsertsAfterOpeningDelimiter ==
    \A k \in 1..Len(writes) :
        LET old == SplitLines(writes[k].before)
            new == SplitLines(writes[k].after)
            d   == OpeningDelimiterLine(old)
        IN  (\A i \in 1..Len(old) : ~StartsWith(old[i], NOTE_ID_KEY)) =>
                new = SubSeq(old, 1, d) \o <<NoteIdLine(writes[k].note_id)>>
                      \o SubSeq(old, d + 1, Len(old))

(***************************************************************************)
(* C9 as claimed: the tags of the note are the entries of the tags value   *)
(* between commas, each trimmed, as a set: no entry twice, and no tag at   *)
(* all for an empty value.                                                 *)
(***************************************************************************)
KeyOf(line) == Strip(Split(line, <<":">>, 1)[1])

\* the value of the last tags line of the metadata block
TagsValue(text) ==
    LET lines == MetadataLines(text)
        last  == CHOOSE i \in 1..Len(lines) :
                    /\ KeyOf(lines[i]) = TAGS_KEY
                    /\ \A j \in (i + 1)..Len(lines) : KeyOf(lines[j]) # TAGS_KEY
    IN  Strip(Split(lines[last], <<":">>, 1)[2])

ClaimedTags(value) ==
    IF value = <<>> THEN {}
    ELSE LET entries == Split(value, <<",">>, -1)
         IN  {Strip(entries[i]) : i \in 1..Len(entries)}

C9_TagsAreTheTrimmedEntriesAsASet ==
    note # None =>
        LET tags  == TheValue(note).tags
            value == TagsValue(files0[idx])
        IN  /\ {tags[i] : i \in 1..Len(tags)} = ClaimedTags(value)
            /\ Len(tags) = Cardinality(ClaimedTags(value))

(***************************************************************************)
(* update_note_file_id on its own: the note files it is given              *)
(***************************************************************************)

\* a file may end with this many newlines at most
MaxTrailingNewlines == 1

L_ID_INDENTED == <<" ">> \o NoteIdLine(5)

UpdPreambles == {<<>>, <<L_TITLE>>}

UpdMetadatas ==
    {<<L_DECK, L_MODEL, L_TAGS_AB>>,
     <<NoteIdLine(5), L_DECK, L_MODEL, L_TAGS_AB>>,
     <<L_DECK, L_MODEL, L_TAGS_AB, NoteIdLine(5)>>,
     <<L_DECK, L_ID_INDENTED, L_MODEL, L_TAGS_AB>>}

UpdContents == {<<L_FRONT, L_Q>>, <<L_FRONT, L_PROSE>>, <<L_FRONT, L_Q, L_BACK, L_R>>}

NoteFileOf(preamble, metadata, content, newlines) ==
    Join(preamble \o <<L_DELIM>> \o metadata \o <<L_DELIM>> \o content, <<"\n">>)
    \o [i \in 1..newlines |-> "\n"]

UpdFiles ==
    {NoteFileOf(p, m, c, n) :
        p \in UpdPreambles, m \in UpdMetadatas, c \in UpdContents, n \in 0..MaxTrailingNewlines}

InitUpd ==
    /\ root_exists = TRUE
    /\ files \in {<<f>> : f \in UpdFiles}
    /\ files0 = files
    /\ anki_notes = InitialAnkiNotes
    /\ run = 1
    /\ created = <<>>
    /\ pc = "update_file"
    /\ idx = 1
    /\ raw = None /\ note = None /\ outcome = None
    /\ note_id \in {Some(id) : id \in NewIds}
    /\ inserted_amount = 0 /\ updated_amount = 0 /\ errored_amount = 0
    /\ error = None
    /\ stdout = <<>> /\ requests = <<>> /\ writes = <<>> /\ outcomes = <<>>

NextUpd == UpdateNoteFileId

SpecUpd == InitUpd /\ [][NextUpd]_vars

(***************************************************************************)
(* C6 as claimed: for a note file with a note_id line (a line that begins  *)
(* with note_id and whose key is note_id), update_note_file_id writes the  *)
(* lines of the file with that one line replaced by "note_id: <value>": as *)
(* many lines as before, and every other line as it was.                   *)
(***************************************************************************)
IsNoteIdLine(line) ==
    /\ StartsWith(line, NOTE_ID_KEY)
    /\ HasColon(line)
    /\ KeyOf(line) = NOTE_ID_KEY

C6_ReplacesOnlyTheNoteIdLine ==
    \A k \in 1..Len(writes) :
        LET old    == SplitLines(writes[k].before)
            new    == SplitLines(writes[k].after)
            parsed == parse_markdown_note(writes[k].before)
        IN  (parsed.ok /\ \E j \in 1..Len(old) : IsNoteIdLine(old[j])) =>
                /\ Len(new) = Len(old)
                /\ \E j \in 1..Len(old) :
                      /\ IsNoteIdLine(old[j])
                      /\ new[j] = NoteIdLine(writes[k].note_id)
                      /\ \A i \in (1..Len(old)) \ {j} : new[i] = old[i]

(***************************************************************************)
(* _split_metadata_and_content on its own: the texts it is given           *)
(***************************************************************************)

\* a text is at most this many pieces long
MaxPieces == 4

SplitPieces == {DELIMITER, <<"-">>, <<"a">>, <<" ">>}

RECURSIVE Concat(_)
Concat(pieces) == IF pieces = <<>> THEN <<>> ELSE Head(pieces) \o Concat(Tail(pieces))

SplitTexts == {Concat(ps) : ps \in UNION {[1..n -> SplitPieces] : n \in 0..MaxPieces}}

InitSplit ==
    /\ root_exists = TRUE
    /\ files \in {<<t>> : t \in SplitTexts}
    /\ files0 = files
    /\ anki_notes = InitialAnkiNotes
    /\ run = 1
    /\ created = <<>>
    /\ pc = "loop"
    /\ idx = 0
    /\ raw = None /\ note = None /\ note_id = None /\ outcome = None
    /\ inserted_amount = 0 /\ updated_amount = 0 /\ errored_amount = 0
    /\ error = None
    /\ stdout = <<>> /\ requests = <<>> /\ writes = <<>> /\ outcomes = <<>>

NextSplit == SplitMetadataAndContent

SpecSplit == InitSplit /\ [][NextSplit]_vars

\* s.count(sep): the occurrences of sep in s, from the left, none overlapping
RECURSIVE CountOccurrences(_, _)
CountOccurrences(s, sep) ==
    LET i == Find(s, sep)
    IN  IF i = 0 THEN 0
        ELSE 1 + CountOccurrences(SubSeq(s, i + Len(sep), Len(s)), sep)

(***************************************************************************)
(* C8 as claimed: the split of a text succeeds when the delimiter occurs   *)
(* exactly twice in it, and raises for any other number of occurrences.    *)
(***************************************************************************)
C8_SplitNeedsExactlyTwoDelimiters ==
    idx = 1 =>
        IF CountOccurrences(files[1], DELIMITER) = 2
        THEN pc = "parse" /\ raw # None
        ELSE pc = "raised" /\ raw = None /\ note = None

(***************************************************************************)
(* C8, amended: the split of a text raises ValueError, and no Note is      *)
(* assembled, when the delimiter occurs fewer than two times in it; with   *)
(* two occurrences or more it succeeds: the metadata is the text between   *)
(* the first two occurrences and the content all the text after the        *)
(* second, later delimiters included, both trimmed.                        *)
(***************************************************************************)
C8_SplitNeedsAtLeastTwoDelimiters ==
    idx = 1 =>
        LET text   == files[1]
            first  == Find(text, DELIMITER)
            rest   == SubSeq(text, first + 3, Len(text))
            second == Find(rest, DELIMITER)
        IN  IF CountOccurrences(text, DELIMITER) < 2
            THEN /\ pc = "raised"
                 /\ TheValue(error).type = "ValueError"
                 /\ raw = None /\ note = None
            ELSE /\ pc = "parse"
                 /\ error = None
                 /\ raw = Some([metadata |-> Strip(SubSeq(rest, 1, second - 1)),
                                content  |-> Strip(SubSeq(rest, second + 3, Len(rest)))])

\* a text with three delimiters or more has been split
C8_Witness ==
    /\ idx = 1
    /\ pc = "parse"
    /\ CountOccurrences(files[1], DELIMITER) >= 3
    /\ Find(TheValue(raw).content, DELIMITER) # 0

====
